---- MODULE Spec2Model ----
(***************************************************************************)
(* Model of the sso authentication core (package auth), its token issuer   *)
(* (package jwt), the gRPC adapter (serverAPI) and the storage contract    *)
(* the core is written against.                                            *)
(*                                                                         *)
(* Every worker is one request-handling goroutine.  A request is executed  *)
(* in the steps of the handler's code; a step ends where the handler calls *)
(* into the store (the only places where goroutines interleave on shared   *)
(* state).                                                                 *)
(***************************************************************************)
EXTENDS Integers, Sequences, FiniteSets, TLC

\* ------------------------------------------------------------------ bounds
NumEmails == 2
MaxTime == 1

Workers == {"w1", "w2"}
Emails == 1..NumEmails
Passwords == {"pw1", "pw2"}
Times == 0..MaxTime
\* the token TTL the core is constructed with (seconds)
TTLs == {3600}
\* ids the store can hand out: one per email
UserIDs == 1..NumEmails
\* user ids a caller can ask IsAdmin about: the known ones and an unknown one
AskedUserIDs == 1..(NumEmails + 1)
\* the apps provisioned in the store, each with its own secret
ProvisionedApps == {[id |-> 1, secret |-> "secretA"], [id |-> 2, secret |-> "secretB"]}
\* the admin flags provisioned in the store: user 1 is an admin, the others not
ProvisionedAdmins == [id \in UserIDs |-> id = 1]
\* app ids a caller can send: the provisioned ones and one the store does not know
AskedAppIDs == {1, 2, 3}

\* ------------------------------------------------------------------ errors
\* An error is its chain of messages, outermost first; nil is the empty chain.
Nil == << >>
ErrUserExists == <<"user already exists">>
ErrUserNotFound == <<"not found">>
ErrAppNotFound == <<"app not found">>
ErrInvalidCredentials == <<"invalid credentials">>
\* any failure of the store that is none of its sentinels
ErrStoreOther == <<"store failure">>
\* bcrypt.GenerateFromPassword failing (entropy source, password too long)
ErrHashFailed == <<"bcrypt: failed">>
\* bcrypt.CompareHashAndPassword on a hash that does not match
ErrMismatchedHashAndPassword == <<"crypto/bcrypt: hashedPassword is not the hash of the given password">>
\* ctx.Err() of a cancelled context
ErrCanceled == <<"context canceled">>
\* jwt: the signing method was handed a key of a type it cannot use
ErrInvalidKeyType == <<"key is of invalid type">>

\* fmt.Errorf("%s: %w", op, err)
Wrap(op, err) == <<op>> \o err

\* errors.Is(err, target) for a sentinel target: the chain of err ends in it
Is(err, target) == Len(err) > 0 /\ err[Len(err)] = target[1]

\* the innermost cause of an error chain: what error-kind inspection finds
Kind(err) == IF err = Nil THEN "nil" ELSE err[Len(err)]

\* ------------------------------------------------------------------ values
NoHash == [alg |-> "none", pw |-> ""]
NoUser == [id |-> 0, email |-> 0, passHash |-> NoHash]
NoApp == [id |-> 0, secret |-> ""]
\* the empty token string ""
NoToken == [claims |-> [uid |-> 0, email |-> 0, exp |-> 0, app_id |-> 0],
            sig |-> [alg |-> "none", key |-> ""]]
NoReq == [op |-> "none", email |-> 0, password |-> "", appID |-> 0, userID |-> 0,
          duration |-> 0, at |-> 0]
NoLoc == [passHash |-> NoHash, user |-> NoUser, app |-> NoApp]
\* outcome: "none" (still running), "returned", "panic", "fell_through"
NoRes == [outcome |-> "none", uid |-> 0, token |-> NoToken, admin |-> FALSE, err |-> Nil]

VARIABLES
    users,   \* store: the user records (id, email, passHash)
    admins,  \* store: the admin flag held for each user id
    apps,    \* store: the app records (id, secret)
    a,       \* the Auth object: its configuration fields
    pc,      \* per worker: position in the handler it runs
    req,     \* per worker: the arguments of the call
    loc,     \* per worker: the handler's local variables
    res,     \* per worker: what the call returned
    calls    \* per worker: the store/hasher calls made by this request, in order
             \* (and, under SpecCtx, the cancellation of its context)

\* the process around the core: main, the gRPC server goroutine, the OS
VARIABLES
    proc,    \* the process: "running", "exited" (main returned), "crashed"
             \* (a goroutine panicked), "killed" (signal with no handler)
    mainPc,  \* main: position in its code
    srv,     \* the goroutine of `go MustRun()`: position, Run's errors
    grpc,    \* the grpc.Server: stopped, and how often GracefulStop was called
    stop,    \* main's channel `stop` (capacity 1)
    log      \* the messages logged by main, Run and Stop, in order

life == <<proc, mainPc, srv, grpc, stop, log>>

vars == <<users, admins, apps, a, pc, req, loc, res, calls, life>>

\* ------------------------------------------------------- password hasher
\* bcrypt.GenerateFromPassword(pass, bcrypt.DefaultCost); ok = FALSE is the
\* library failing.  The hash is opaque: it is never the plaintext itself.
GenerateFromPassword(pass, ok) ==
    IF ok THEN [hash |-> [alg |-> "bcrypt", pw |-> pass], err |-> Nil]
    ELSE [hash |-> NoHash, err |-> ErrHashFailed]

\* bcrypt.CompareHashAndPassword(hash, password): nil iff the hash was made
\* from this password
CompareHashAndPassword(hash, password) ==
    IF hash.alg = "bcrypt" /\ hash.pw = password THEN Nil
    ELSE ErrMismatchedHashAndPassword

\* ---------------------------------------------------------- token issuer
\* jwt.New(jwt.SigningMethodES256)
SigningMethod == "ES256"

\* []byte(app.Secret)
BytesKey(secret) == [type |-> "bytes", val |-> secret]

\* token.SignedString(key) of golang-jwt: ES256 signs only with an
\* *ecdsa.PrivateKey, HS256 only with a []byte key; any other key type is
\* ErrInvalidKeyType and no token string is produced.
SignedString(method, claims, key) ==
    IF (method = "ES256" /\ key.type = "ecdsa.PrivateKey")
       \/ (method = "HS256" /\ key.type = "bytes")
    THEN [token |-> [claims |-> claims, sig |-> [alg |-> method, key |-> key.val]],
          err |-> Nil]
    ELSE [token |-> NoToken, err |-> ErrInvalidKeyType]

\* checking a token's signature against a secret
VerifySignature(token, secret) ==
    token.sig.alg = SigningMethod /\ token.sig.key = secret

\* jwt.NewToken(user, app, duration), called at time now
NewToken(user, app, duration, now) ==
    LET claims == [uid |-> user.id, email |-> user.email,
                   exp |-> now + duration, app_id |-> app.id]
        signed == SignedString(SigningMethod, claims, BytesKey(app.secret))
    IN IF signed.err # Nil
       THEN [token |-> NoToken, err |-> signed.err]
       ELSE [token |-> signed.token, err |-> signed.err]

\* ---------------------------------------------------------- store contract
\* SaveUser: one atomic insert-if-not-exists; fault = TRUE is any other failure
SaveUser(us, email, passHash, fault) ==
    IF fault THEN [users |-> us, uid |-> 0, err |-> ErrStoreOther]
    ELSE IF \E u \in us : u.email = email
    THEN [users |-> us, uid |-> 0, err |-> ErrUserExists]
    ELSE LET id == Cardinality(us) + 1
         IN [users |-> us \cup {[id |-> id, email |-> email, passHash |-> passHash]},
             uid |-> id, err |-> Nil]

\* User: exact-match lookup by email
User(us, email, fault) ==
    IF fault THEN [user |-> NoUser, err |-> ErrStoreOther]
    ELSE IF \E u \in us : u.email = email
    THEN [user |-> CHOOSE u \in us : u.email = email, err |-> Nil]
    ELSE [user |-> NoUser, err |-> ErrUserNotFound]

\* App: lookup by id
App(as, appID, fault) ==
    IF fault THEN [app |-> NoApp, err |-> ErrStoreOther]
    ELSE IF \E x \in as : x.id = appID
    THEN [app |-> CHOOSE x \in as : x.id = appID, err |-> Nil]
    ELSE [app |-> NoApp, err |-> ErrAppNotFound]

\* IsAdmin of the store: the flag held for a known user id
StoreIsAdmin(us, ad, userID, fault) ==
    IF fault THEN [admin |-> FALSE, err |-> ErrStoreOther]
    ELSE IF \E u \in us : u.id = userID
    THEN [admin |-> ad[userID], err |-> Nil]
    ELSE [admin |-> FALSE, err |-> ErrUserNotFound]

\* ------------------------------------------------------------------- state
\* auth.New(log, usersaver, userProvider, appProvider, tokenTTL)
New(tokenTTL) == [toketTTL |-> tokenTTL]

Init ==
    /\ users = {}
    /\ admins = ProvisionedAdmins
    /\ apps = ProvisionedApps
    /\ \E ttl \in TTLs : a = New(ttl)
    /\ pc = [w \in Workers |-> "idle"]
    /\ req = [w \in Workers |-> NoReq]
    /\ loc = [w \in Workers |-> NoLoc]
    /\ res = [w \in Workers |-> NoRes]
    /\ calls = [w \in Workers |-> << >>]
    /\ proc = "running"
    /\ mainPc = "start"
    /\ srv = [pc |-> "none", listenErr |-> Nil, serveErr |-> Nil, runErr |-> Nil]
    /\ grpc = [stopped |-> FALSE, stopCalls |-> 0]
    /\ stop = << >>
    /\ log = << >>

\* a call on worker w begins: its arguments are bound, nothing else yet
Begin(w, r, first) ==
    /\ pc[w] = "idle"
    /\ req' = [req EXCEPT ![w] = r]
    /\ pc' = [pc EXCEPT ![w] = first]
    /\ loc' = [loc EXCEPT ![w] = NoLoc]
    /\ res' = [res EXCEPT ![w] = NoRes]
    /\ calls' = [calls EXCEPT ![w] = << >>]
    /\ UNCHANGED <<life, users, admins, apps, a>>

\* --------------------------------------------------- Auth.RegisterNewUser
opRegister == "auth.RegisterNewUser"

CallRegisterNewUser(w) ==
    \E email \in Emails, pass \in Passwords :
        Begin(w, [NoReq EXCEPT !.op = "RegisterNewUser", !.email = email,
                                !.password = pass], "reg_hash")

\* what RegisterNewUser returns when hashing failed
RegisterHashFailed(err) ==
    [NoRes EXCEPT !.outcome = "returned", !.uid = 0, !.err = Wrap(opRegister, err)]

\* RegisterNewUser with the error check after hashing left out
RegisterHash_IgnoresErr(w) ==
    /\ pc[w] = "reg_hash"
    /\ \E ok \in BOOLEAN :
         LET h == GenerateFromPassword(req[w].password, ok)
         IN /\ calls' = [calls EXCEPT ![w] = Append(@, [call |-> "Hash", err |-> h.err])]
            /\ loc' = [loc EXCEPT ![w].passHash = h.hash]
    /\ pc' = [pc EXCEPT ![w] = "reg_save"]
    /\ UNCHANGED <<life, users, admins, apps, a, req, res>>

\* passHash, err := bcrypt.GenerateFromPassword(...); if err != nil { return 0, ... }
RegisterHash(w) ==
    /\ pc[w] = "reg_hash"
    /\ \E ok \in BOOLEAN :
         LET h == GenerateFromPassword(req[w].password, ok)
         IN /\ calls' = [calls EXCEPT ![w] = Append(@, [call |-> "Hash", err |-> h.err])]
            /\ IF h.err # Nil
               THEN /\ res' = [res EXCEPT ![w] = RegisterHashFailed(h.err)]
                    /\ pc' = [pc EXCEPT ![w] = "done"]
                    /\ loc' = loc
               ELSE /\ loc' = [loc EXCEPT ![w].passHash = h.hash]
                    /\ pc' = [pc EXCEPT ![w] = "reg_save"]
                    /\ res' = res
    /\ UNCHANGED <<life, users, admins, apps, a, req>>

\* RegisterNewUser with the error check after SaveUser left out
RegisterSaved_IgnoresErr(id, err) ==
    [NoRes EXCEPT !.outcome = "returned", !.uid = id, !.err = Nil]

\* what RegisterNewUser returns after SaveUser answered (id, err)
RegisterSaved(id, err) ==
    IF err # Nil
    THEN [NoRes EXCEPT !.outcome = "returned", !.uid = 0, !.err = Wrap(opRegister, err)]
    ELSE [NoRes EXCEPT !.outcome = "returned", !.uid = id, !.err = Nil]

\* RegisterNewUser calling SaveUser again after a store failure
RegisterSave_RetriesOnFault(w) ==
    /\ pc[w] = "reg_save"
    /\ \E fault \in BOOLEAN :
         LET s == SaveUser(users, req[w].email, loc[w].passHash, fault)
         IN /\ users' = s.users
            /\ calls' = [calls EXCEPT ![w] = Append(@, [call |-> "SaveUser", err |-> s.err])]
            /\ IF s.err = ErrStoreOther /\ Len(calls[w]) < 2
               THEN pc' = pc /\ res' = res
               ELSE /\ res' = [res EXCEPT ![w] = RegisterSaved(s.uid, s.err)]
                    /\ pc' = [pc EXCEPT ![w] = "done"]
    /\ UNCHANGED <<life, admins, apps, a, req, loc>>

\* id, err := a.usrSaver.SaveUser(ctx, email, passHash); return
RegisterSave(w) ==
    /\ pc[w] = "reg_save"
    /\ \E fault \in BOOLEAN :
         LET s == SaveUser(users, req[w].email, loc[w].passHash, fault)
         IN /\ users' = s.users
            /\ calls' = [calls EXCEPT ![w] = Append(@, [call |-> "SaveUser", err |-> s.err])]
            /\ res' = [res EXCEPT ![w] = RegisterSaved(s.uid, s.err)]
    /\ pc' = [pc EXCEPT ![w] = "done"]
    /\ UNCHANGED <<life, admins, apps, a, req, loc>>

\* ------------------------------------------------------------- Auth.Login
opLogin == "auth.Login"

CallLogin(w) ==
    \E email \in Emails, password \in Passwords, appID \in AskedAppIDs :
        Begin(w, [NoReq EXCEPT !.op = "Login", !.email = email,
                                !.password = password, !.appID = appID], "login_user")

\* Login passing the store's not-found through instead of mapping it
LoginUserFailed_PassesNotFound(err) == Wrap(opLogin, err)

\* the error Login returns when the user lookup failed with err
LoginUserFailed(err) ==
    IF Is(err, ErrUserNotFound)
    THEN Wrap(opLogin, ErrInvalidCredentials)
    ELSE Wrap(opLogin, err)

\* Login saving a user record for an email it did not find
LoginUser_AutoRegisters(w) ==
    /\ pc[w] = "login_user"
    /\ \E fault \in BOOLEAN :
         LET u == User(users, req[w].email, fault)
         IN /\ calls' = [calls EXCEPT ![w] = Append(@, [call |-> "User", err |-> u.err])]
            /\ IF u.err # Nil
               THEN /\ res' = [res EXCEPT ![w] = [NoRes EXCEPT !.outcome = "returned",
                                    !.token = NoToken, !.err = LoginUserFailed(u.err)]]
                    /\ pc' = [pc EXCEPT ![w] = "done"]
                    /\ loc' = loc
                    /\ users' = IF Is(u.err, ErrUserNotFound)
                                THEN SaveUser(users, req[w].email, NoHash, FALSE).users
                                ELSE users
               ELSE /\ loc' = [loc EXCEPT ![w].user = u.user]
                    /\ pc' = [pc EXCEPT ![w] = "login_pass"]
                    /\ res' = res
                    /\ users' = users
    /\ UNCHANGED <<life, admins, apps, a, req>>

\* user, err := a.usrProvider.User(ctx, email); if err != nil { ... }
LoginUser(w) ==
    /\ pc[w] = "login_user"
    /\ \E fault \in BOOLEAN :
         LET u == User(users, req[w].email, fault)
         IN /\ calls' = [calls EXCEPT ![w] = Append(@, [call |-> "User", err |-> u.err])]
            /\ IF u.err # Nil
               THEN /\ res' = [res EXCEPT ![w] = [NoRes EXCEPT !.outcome = "returned",
                                    !.token = NoToken, !.err = LoginUserFailed(u.err)]]
                    /\ pc' = [pc EXCEPT ![w] = "done"]
                    /\ loc' = loc
               ELSE /\ loc' = [loc EXCEPT ![w].user = u.user]
                    /\ pc' = [pc EXCEPT ![w] = "login_pass"]
                    /\ res' = res
    /\ UNCHANGED <<life, users, admins, apps, a, req>>

\* Login returning the sentinel without the operation name
LoginPasswordFailed_Bare(err) == ErrInvalidCredentials

\* the error Login returns when the password does not match the hash
LoginPasswordFailed(err) == Wrap(opLogin, ErrInvalidCredentials)

\* Login going on to the app lookup although the password did not match
LoginPassword_NoShortCircuit(w) ==
    /\ pc[w] = "login_pass"
    /\ LET err == CompareHashAndPassword(loc[w].user.passHash, req[w].password)
       IN calls' = [calls EXCEPT ![w] = Append(@, [call |-> "Compare", err |-> err])]
    /\ pc' = [pc EXCEPT ![w] = "login_app"]
    /\ UNCHANGED <<life, users, admins, apps, a, req, loc, res>>

\* if err := bcrypt.CompareHashAndPassword(user.PassHash, []byte(password)); err != nil
LoginPassword(w) ==
    /\ pc[w] = "login_pass"
    /\ LET err == CompareHashAndPassword(loc[w].user.passHash, req[w].password)
       IN /\ calls' = [calls EXCEPT ![w] = Append(@, [call |-> "Compare", err |-> err])]
          /\ IF err # Nil
             THEN /\ res' = [res EXCEPT ![w] = [NoRes EXCEPT !.outcome = "returned",
                                  !.token = NoToken, !.err = LoginPasswordFailed(err)]]
                  /\ pc' = [pc EXCEPT ![w] = "done"]
             ELSE /\ pc' = [pc EXCEPT ![w] = "login_app"]
                  /\ res' = res
    /\ UNCHANGED <<life, users, admins, apps, a, req, loc>>

\* Login reporting an unresolved app as a credential failure
LoginAppFailed_AsCredentials(err) == Wrap(opLogin, ErrInvalidCredentials)

\* the error Login returns when the app lookup failed with err
LoginAppFailed(err) == Wrap(opLogin, err)

\* how Login ends once the user is authenticated and the app resolved: the
\* function logs "successfully logged in" and its body ends there, with no
\* return statement and no call of the token issuer.
LoginSucceeded(user, app, ttl) ==
    [NoRes EXCEPT !.outcome = "fell_through", !.token = NoToken, !.err = Nil]

\* app, err := a.appProvider.App(ctx, appID); if err != nil { ... }; end of body
LoginApp(w) ==
    /\ pc[w] = "login_app"
    /\ \E fault \in BOOLEAN :
         LET x == App(apps, req[w].appID, fault)
         IN /\ calls' = [calls EXCEPT ![w] = Append(@, [call |-> "App", err |-> x.err])]
            /\ IF x.err # Nil
               THEN /\ res' = [res EXCEPT ![w] = [NoRes EXCEPT !.outcome = "returned",
                                    !.token = NoToken, !.err = LoginAppFailed(x.err)]]
                    /\ loc' = loc
               ELSE /\ res' = [res EXCEPT ![w] = LoginSucceeded(loc[w].user, x.app, a.toketTTL)]
                    /\ loc' = [loc EXCEPT ![w].app = x.app]
    /\ pc' = [pc EXCEPT ![w] = "done"]
    /\ UNCHANGED <<life, users, admins, apps, a, req>>

\* ----------------------------------------------------------- Auth.IsAdmin
\* how IsAdmin ends: panic("implement me"), whatever the user id
IsAdminResult(us, ad, userID) == [NoRes EXCEPT !.outcome = "panic"]

IsAdmin(w) ==
    /\ pc[w] = "idle"
    /\ \E userID \in AskedUserIDs :
         /\ req' = [req EXCEPT ![w] = [NoReq EXCEPT !.op = "IsAdmin", !.userID = userID]]
         /\ res' = [res EXCEPT ![w] = IsAdminResult(users, admins, userID)]
    /\ pc' = [pc EXCEPT ![w] = "done"]
    /\ loc' = [loc EXCEPT ![w] = NoLoc]
    /\ calls' = [calls EXCEPT ![w] = << >>]
    /\ UNCHANGED <<life, users, admins, apps, a>>

\* --------------------------------------------------------- gRPC adapter
\* how each serverAPI method ends: panic("not implemented")
ServerResult(method) == [NoRes EXCEPT !.outcome = "panic"]

\* a method of serverAPI is entered: it panics before it reads its request
ServerCall(w, method) ==
    /\ pc[w] = "idle"
    /\ req' = [req EXCEPT ![w] = [NoReq EXCEPT !.op = method]]
    /\ res' = [res EXCEPT ![w] = ServerResult(method)]
    /\ pc' = [pc EXCEPT ![w] = "done"]
    /\ loc' = [loc EXCEPT ![w] = NoLoc]
    /\ calls' = [calls EXCEPT ![w] = << >>]
    /\ UNCHANGED <<life, users, admins, apps, a>>

ServerLogin(w) == ServerCall(w, "serverAPI.Login")

ServerRegister(w) == ServerCall(w, "serverAPI.Register")

ServerIsAdmin(w) == ServerCall(w, "serverAPI.IsAdmin")

\* ------------------------------------------------------------ jwt.NewToken
\* the token issuer called on its own, for a stored user and a provisioned app
IssueToken(w) ==
    /\ pc[w] = "idle"
    /\ \E user \in users, app \in apps, now \in Times :
         LET t == NewToken(user, app, a.toketTTL, now)
         IN /\ req' = [req EXCEPT ![w] = [NoReq EXCEPT !.op = "NewToken",
                            !.email = user.email, !.userID = user.id, !.appID = app.id,
                            !.duration = a.toketTTL, !.at = now]]
            /\ res' = [res EXCEPT ![w] = [NoRes EXCEPT !.outcome = "returned",
                            !.token = t.token, !.err = t.err]]
            /\ loc' = [loc EXCEPT ![w] = [NoLoc EXCEPT !.user = user, !.app = app]]
    /\ pc' = [pc EXCEPT ![w] = "done"]
    /\ calls' = [calls EXCEPT ![w] = << >>]
    /\ UNCHANGED <<life, users, admins, apps, a>>

\* the worker is handed its next request
Finish(w) ==
    /\ pc[w] = "done"
    /\ pc' = [pc EXCEPT ![w] = "idle"]
    /\ req' = [req EXCEPT ![w] = NoReq]
    /\ loc' = [loc EXCEPT ![w] = NoLoc]
    /\ res' = [res EXCEPT ![w] = NoRes]
    /\ calls' = [calls EXCEPT ![w] = << >>]
    /\ UNCHANGED <<life, users, admins, apps, a>>

Next ==
    \E w \in Workers :
        \/ CallRegisterNewUser(w)
        \/ RegisterHash(w)
        \/ RegisterSave(w)
        \/ CallLogin(w)
        \/ LoginUser(w)
        \/ LoginPassword(w)
        \/ LoginApp(w)
        \/ IsAdmin(w)
        \/ ServerLogin(w)
        \/ ServerRegister(w)
        \/ ServerIsAdmin(w)
        \/ IssueToken(w)
        \/ Finish(w)

\* ---------------------------------------------------------- ctx cancelled
\* the caller cancels the ctx of the request worker w is running; the core
\* reads ctx nowhere, it only hands it on to the store calls
CancelCtx(w) ==
    /\ pc[w] \notin {"idle", "done"}
    /\ \A i \in 1..Len(calls[w]) : calls[w][i].call # "ctx.Done"
    /\ calls' = [calls EXCEPT ![w] = Append(@, [call |-> "ctx.Done", err |-> ErrCanceled])]
    /\ UNCHANGED <<life, users, admins, apps, a, pc, req, loc, res>>

NextCtx ==
    \/ Next
    \/ \E w \in Workers : CancelCtx(w)

Spec == Init /\ [][Next]_vars


\* the core with callers that may cancel a request's context
SpecCtx == Init /\ [][NextCtx]_vars

\* ------------------------------------------------------ process lifecycle
core == <<users, admins, apps, a, pc, req, loc, res, calls>>

Signals == {"SIGINT", "SIGTERM"}
\* net.Listen failing (port in use, no permission)
ErrListen == <<"listen tcp: bind failed">>
\* Serve failing on its listener
ErrServe == <<"accept failed">>
\* grpc.ErrServerStopped: Serve called after GracefulStop
ErrServerStopped == <<"grpc: the server has been stopped">>
opRun == "grpcapp.Run"

\* main: go application.GRPCSrv.MustRun()
MainGo ==
    /\ proc = "running" /\ mainPc = "start"
    /\ mainPc' = "notify"
    /\ srv' = [srv EXCEPT !.pc = "run"]
    /\ UNCHANGED <<core, proc, grpc, stop, log>>

\* main: stop := make(chan os.Signal, 1); signal.Notify(stop, SIGINT, SIGTERM)
MainNotify ==
    /\ proc = "running" /\ mainPc = "notify"
    /\ mainPc' = "wait"
    /\ UNCHANGED <<core, proc, srv, grpc, stop, log>>

\* the OS delivers SIGINT or SIGTERM: before signal.Notify it ends the
\* process; after it the signal goes to the channel, unless that is full
OsSignal ==
    /\ proc = "running"
    /\ \E s \in Signals :
         IF mainPc \in {"start", "notify"}
         THEN proc' = "killed" /\ stop' = stop
         ELSE /\ Len(stop) < 1
              /\ stop' = Append(stop, s)
              /\ proc' = proc
    /\ UNCHANGED <<core, mainPc, srv, grpc, log>>

\* main: signal := <-stop; log.Info("received signal", ...)
MainReceive ==
    /\ proc = "running" /\ mainPc = "wait"
    /\ Len(stop) > 0
    /\ log' = Append(log, "received signal " \o Head(stop))
    /\ stop' = Tail(stop)
    /\ mainPc' = "got"
    /\ UNCHANGED <<core, proc, srv, grpc>>

\* main: application.GRPCSrv.Stop() is entered: it logs and calls GracefulStop
MainStop ==
    /\ proc = "running" /\ mainPc = "got"
    /\ log' = Append(log, "stopping gRPC server")
    /\ grpc' = [stopped |-> TRUE, stopCalls |-> grpc.stopCalls + 1]
    /\ mainPc' = "in_stop"
    /\ UNCHANGED <<core, proc, srv, stop>>

\* GracefulStop and Stop return to main
MainStopReturns ==
    /\ proc = "running" /\ mainPc = "in_stop"
    /\ mainPc' = "after_stop"
    /\ UNCHANGED <<core, proc, srv, grpc, stop, log>>

\* main: log.Info("application stopped"); main returns and the process ends
MainLogStopped ==
    /\ proc = "running" /\ mainPc = "after_stop"
    /\ log' = Append(log, "application stopped")
    /\ mainPc' = "exit"
    /\ proc' = "exited"
    /\ UNCHANGED <<core, srv, grpc, stop>>

\* what Run returns, given the errors of net.Listen and of Serve
RunResult(listenErr, serveErr) ==
    IF listenErr # Nil THEN Wrap(opRun, listenErr)
    ELSE IF serveErr # Nil THEN Wrap(opRun, serveErr)
    ELSE Nil

\* Run: l, err := net.Listen(...); if err != nil { return ... }; log.Info(...)
SrvListen ==
    /\ proc = "running" /\ srv.pc = "run"
    /\ \E ok \in BOOLEAN :
         IF ok
         THEN /\ srv' = [srv EXCEPT !.pc = "listening"]
              /\ log' = Append(log, "starting gRPC server")
         ELSE /\ srv' = [srv EXCEPT !.pc = "returned", !.listenErr = ErrListen,
                                   !.runErr = RunResult(ErrListen, Nil)]
              /\ log' = log
    /\ UNCHANGED <<core, proc, mainPc, grpc, stop>>

\* Run: a.gRPCServer.Serve(l) is entered; on a server already stopped it
\* returns ErrServerStopped at once
SrvServe ==
    /\ proc = "running" /\ srv.pc = "listening"
    /\ IF grpc.stopped
       THEN srv' = [srv EXCEPT !.pc = "returned", !.serveErr = ErrServerStopped,
                               !.runErr = RunResult(Nil, ErrServerStopped)]
       ELSE srv' = [srv EXCEPT !.pc = "serving"]
    /\ UNCHANGED <<core, proc, mainPc, grpc, stop, log>>

\* Serve returns: nil after GracefulStop, an error when its listener fails
SrvServeReturns ==
    /\ proc = "running" /\ srv.pc = "serving"
    /\ \E failed \in BOOLEAN :
         /\ ~failed => grpc.stopped
         /\ LET e == IF failed THEN ErrServe ELSE Nil
            IN srv' = [srv EXCEPT !.pc = "returned", !.serveErr = e,
                                  !.runErr = RunResult(Nil, e)]
    /\ UNCHANGED <<core, proc, mainPc, grpc, stop, log>>

\* MustRun dropping Run's error
MustRunOutcome_SwallowsErr(err) == "end"

\* how MustRun ends, given what Run returned
MustRunOutcome(err) == IF err # Nil THEN "panic" ELSE "end"

\* MustRun: if err := app.Run(); err != nil { panic(err) }; a panic in a
\* goroutine ends the process
MustRun ==
    /\ proc = "running" /\ srv.pc = "returned"
    /\ srv' = [srv EXCEPT !.pc = MustRunOutcome(srv.runErr)]
    /\ proc' = IF MustRunOutcome(srv.runErr) = "panic" THEN "crashed" ELSE proc
    /\ UNCHANGED <<core, mainPc, grpc, stop, log>>

NextApp ==
    \/ MainGo
    \/ MainNotify
    \/ OsSignal
    \/ MainReceive
    \/ MainStop
    \/ MainStopReturns
    \/ MainLogStopped
    \/ SrvListen
    \/ SrvServe
    \/ SrvServeReturns
    \/ MustRun

\* the process from main's start to its end
SpecApp == Init /\ [][NextApp]_vars

\* ================================================================== claims
Done(w, op) == pc[w] = "done" /\ req[w].op = op

\* the request of worker w made the call `name` and it answered err
Called(w, name, err) ==
    \E i \in 1..Len(calls[w]) : calls[w][i].call = name /\ calls[w][i].err = err

\* no store call of the request of worker w failed with a non-sentinel error
NoStoreFault(w) ==
    \A i \in 1..Len(calls[w]) : calls[w][i].err # ErrStoreOther

AppKnown(appID) == \E x \in apps : x.id = appID

\* C1: a RegisterNewUser(email, password) that returned a uid, followed by
\* Login(email, password, appID) for an existing app (the store answering
\* every call), gives a returned, signed token whose claims hold that uid, the
\* email and the app id.
C1_RegisterThenLoginReturnsToken ==
    \A p, q \in Workers :
        ( /\ Done(q, "RegisterNewUser") /\ res[q].err = Nil
          /\ Done(p, "Login")
          /\ req[p].email = req[q].email /\ req[p].password = req[q].password
          /\ AppKnown(req[p].appID)
          /\ Called(p, "User", Nil) /\ NoStoreFault(p) )
        => /\ res[p].outcome = "returned"
           /\ res[p].err = Nil
           /\ res[p].token # NoToken
           /\ res[p].token.claims.uid = res[q].uid
           /\ res[p].token.claims.email = req[p].email
           /\ res[p].token.claims.app_id = req[p].appID

\* a finished Login whose email the store did not know
LoginUnregistered(w) ==
    Done(w, "Login") /\ Called(w, "User", ErrUserNotFound)

\* a finished Login of a registered user with a password that is not theirs
LoginWrongPassword(w) ==
    /\ Done(w, "Login")
    /\ loc[w].user \in users
    /\ loc[w].user.email = req[w].email
    /\ loc[w].user.passHash.pw # req[w].password

\* C2: Login with a wrong password of a registered user returns the kind
\* InvalidCredentials, Login with an unregistered email returns the same kind,
\* and what the two callers get back is equal.
C2_EnumerationSafety ==
    /\ \A w \in Workers :
         (LoginUnregistered(w) \/ LoginWrongPassword(w))
         => /\ res[w].outcome = "returned"
            /\ Kind(res[w].err) = Kind(ErrInvalidCredentials)
            /\ res[w].token = NoToken
    /\ \A w1, w2 \in Workers :
         (LoginUnregistered(w1) /\ LoginWrongPassword(w2)) => res[w1] = res[w2]

C2_Witness ==
    \E w1, w2 \in Workers :
        /\ LoginUnregistered(w1) /\ LoginWrongPassword(w2)
        /\ Is(res[w1].err, ErrInvalidCredentials)
        /\ Is(res[w2].err, ErrInvalidCredentials)

\* C3: when RegisterNewUser reaches the store with an email that is already
\* registered (and the store answers), it returns the kind UserAlreadyExists
\* with uid 0, and the step leaves every user record as it was.
C3_DuplicateRegistrationFails ==
    [][ \A w \in Workers :
          ( /\ pc[w] = "reg_save" /\ pc'[w] = "done"
            /\ \E u \in users : u.email = req[w].email
            /\ NoStoreFault(w)' )
          => /\ res'[w].outcome = "returned"
             /\ Kind(res'[w].err) = Kind(ErrUserExists)
             /\ res'[w].uid = 0
             /\ users' = users ]_vars

C3_Witness ==
    \E w \in Workers :
        /\ Done(w, "RegisterNewUser")
        /\ Is(res[w].err, ErrUserExists)
        /\ \E u \in users : u.email = req[w].email /\ u.passHash.pw # req[w].password

\* a finished Login with the right password of a registered user, for an app
\* id the store does not know, the store answering every call
LoginUnknownApp(w) ==
    /\ Done(w, "Login")
    /\ loc[w].user \in users
    /\ loc[w].user.email = req[w].email
    /\ loc[w].user.passHash.pw = req[w].password
    /\ ~AppKnown(req[w].appID)
    /\ NoStoreFault(w)

\* C4: Login with the right email and password but an app id unknown to the
\* store returns the kind AppNotFound: not InvalidCredentials, and no token.
C4_UnknownAppIsAppNotFound ==
    \A w \in Workers :
        LoginUnknownApp(w)
        => /\ res[w].outcome = "returned"
           /\ Kind(res[w].err) = Kind(ErrAppNotFound)
           /\ Kind(res[w].err) # Kind(ErrInvalidCredentials)
           /\ res[w].token = NoToken

C4_Witness ==
    \E w \in Workers : LoginUnknownApp(w) /\ Is(res[w].err, ErrAppNotFound)

\* C5: IsAdmin(userID) returns the store's admin flag and no error for a user
\* id the store knows, and the kind UserNotFound for one it does not know.
C5_IsAdminReturnsStoredFlag ==
    \A w \in Workers :
        Done(w, "IsAdmin")
        => LET s == StoreIsAdmin(users, admins, req[w].userID, FALSE)
           IN /\ res[w].outcome = "returned"
              /\ Kind(res[w].err) = Kind(s.err)
              /\ (s.err = Nil => res[w].admin = s.admin)

\* C6: the token issuer, asked for a token for app A, gives a token that
\* names A in app_id, whose signature verifies against A's secret and fails
\* against the secret of every other app.
C6_CrossAppIsolation ==
    \A w \in Workers :
        Done(w, "NewToken")
        => /\ res[w].err = Nil
           /\ res[w].token.claims.app_id = req[w].appID
           /\ \A x \in apps :
                VerifySignature(res[w].token, x.secret) <=> x.id = req[w].appID

\* C7: a Login that succeeds returns a token whose exp claim is an issuance
\* time plus the TTL the core was constructed with.
C7_LoginTokenExpiry ==
    \A w \in Workers :
        (Done(w, "Login") /\ res[w].err = Nil)
        => \E now \in Times : res[w].token.claims.exp = now + a.toketTTL

\* C8: a Login ends either with a token and no error or with an error and no
\* token; it never ends authenticated and app-resolved with no token returned.
C8_NoPartialSuccess ==
    \A w \in Workers :
        Done(w, "Login")
        => /\ res[w].outcome = "returned"
           /\ \/ (res[w].err = Nil /\ res[w].token # NoToken)
              \/ (res[w].err # Nil /\ res[w].token = NoToken)

\* C9: no call of RegisterNewUser, Login or IsAdmin, made directly or through
\* serverAPI, ends in a panic.
C9_NoPanic ==
    \A w \in Workers : res[w].outcome # "panic"

\* the calls of a RegisterNewUser request: hashing, then at most one SaveUser
RegisterCallsOnlySaveUser(w) ==
    /\ \A i \in 1..Len(calls[w]) : calls[w][i].call \in {"Hash", "SaveUser"}
    /\ Cardinality({i \in 1..Len(calls[w]) : calls[w][i].call = "SaveUser"}) <= 1

\* C10: of the RegisterNewUser calls for one email at most one succeeds, every
\* other one that reaches an answering store fails with UserAlreadyExists, the
\* store never holds two users with one email, and the core makes no store
\* call but its single SaveUser.
C10_ConcurrentRegistration ==
    /\ \A u1, u2 \in users : u1.email = u2.email => u1 = u2
    /\ \A p, q \in Workers :
         ( /\ p # q
           /\ Done(p, "RegisterNewUser") /\ Done(q, "RegisterNewUser")
           /\ req[p].email = req[q].email
           /\ res[p].err = Nil )
         => /\ res[q].err # Nil
            /\ (Called(q, "Hash", Nil) /\ NoStoreFault(q))
               => Kind(res[q].err) = Kind(ErrUserExists)
    /\ \A w \in Workers :
         (Done(w, "RegisterNewUser") /\ res[w].err = Nil)
         => \E u \in users : u.id = res[w].uid /\ u.email = req[w].email
    /\ \A w \in Workers :
         req[w].op = "RegisterNewUser" => RegisterCallsOnlySaveUser(w)

C10_Witness ==
    \E p, q \in Workers :
        /\ p # q
        /\ Done(p, "RegisterNewUser") /\ Done(q, "RegisterNewUser")
        /\ req[p].email = req[q].email
        /\ res[p].err = Nil /\ res[p].uid > 0
        /\ Is(res[q].err, ErrUserExists)

\* []byte(pass): the plaintext password as bytes
PlainBytes(pass) == [alg |-> "plain", pw |-> pass]

\* the request of worker w made the call `name`, whatever it answered
CalledAny(w, name) ==
    \E i \in 1..Len(calls[w]) : calls[w][i].call = name

\* the request of worker w is about to call, or has called, SaveUser with
\* the passHash it holds
AtOrPastSaveUser(w) ==
    req[w].op = "RegisterNewUser" /\ (pc[w] = "reg_save" \/ CalledAny(w, "SaveUser"))

\* C11: the passHash RegisterNewUser hands to SaveUser is the hasher's output
\* for the request's password, never the plaintext bytes; SaveUser is not
\* called when hashing failed; the store holds only hasher outputs.
C11_OnlyHashReachesSaveUser ==
    /\ \A w \in Workers :
         AtOrPastSaveUser(w)
         => /\ Called(w, "Hash", Nil)
            /\ loc[w].passHash = GenerateFromPassword(req[w].password, TRUE).hash
            /\ loc[w].passHash # PlainBytes(req[w].password)
    /\ \A w \in Workers :
         Called(w, "Hash", ErrHashFailed)
         => /\ ~CalledAny(w, "SaveUser")
            /\ pc[w] = "done" /\ res[w].err # Nil
    /\ \A u \in users : u.passHash.alg = "bcrypt" /\ u.passHash # PlainBytes(u.passHash.pw)

C11_Witness ==
    \E w \in Workers :
        /\ Done(w, "RegisterNewUser") /\ Called(w, "SaveUser", Nil)
        /\ \E u \in users : u.id = res[w].uid /\ u.passHash = loc[w].passHash

\* the error kind InternalError of the specification's taxonomy
InternalErrorKind == "internal error"

\* a store call of the request of worker w failed with a non-sentinel error
StoreFaulted(w) ==
    \E i \in 1..Len(calls[w]) : calls[w][i].err = ErrStoreOther

\* C12: a request in which a store call failed with a non-sentinel error
\* returns the kind InternalError, and the error the caller gets carries
\* neither the store's error kind nor its message.
C12_StoreFailureIsInternalError ==
    \A w \in Workers :
        (pc[w] = "done" /\ StoreFaulted(w))
        => /\ res[w].outcome = "returned"
           /\ Kind(res[w].err) = InternalErrorKind
           /\ \A i \in 1..Len(res[w].err) : res[w].err[i] # ErrStoreOther[1]

\* the steps of Login in the order of its code
LoginOrder == <<"User", "Compare", "App">>

\* C13: the calls of a Login request are a prefix of user lookup, password
\* check, app lookup, in that order; a call that failed is the last one of the
\* request, which then ends with an error and no token; a token is never
\* returned without a successful app lookup.
C13_LoginStepsOrdered ==
    \A w \in Workers :
        req[w].op = "Login"
        => /\ Len(calls[w]) <= Len(LoginOrder)
           /\ \A i \in 1..Len(calls[w]) :
                /\ calls[w][i].call = LoginOrder[i]
                /\ calls[w][i].err # Nil
                   => /\ i = Len(calls[w])
                      /\ pc[w] = "done"
                      /\ res[w].err # Nil
                      /\ res[w].token = NoToken
           /\ (pc[w] = "login_pass" => calls[w][Len(calls[w])].call = "User")
           /\ (pc[w] = "login_app" => calls[w][Len(calls[w])].call = "Compare")
           /\ (res[w].token # NoToken => Called(w, "App", Nil))

C13_Witness ==
    \E w1, w2 \in Workers :
        /\ Done(w1, "Login") /\ Len(calls[w1]) = 2
        /\ calls[w1][2] = [call |-> "Compare", err |-> ErrMismatchedHashAndPassword]
        /\ Done(w2, "Login") /\ Len(calls[w2]) = 3
        /\ calls[w2][3] = [call |-> "App", err |-> ErrAppNotFound]

StoreCalls == {"SaveUser", "User", "App", "IsAdmin"}

\* C14: once the context of a request is cancelled, the request makes no
\* further store call, and it ends returning the kind Cancelled.
C14_CancelStopsRequest ==
    \A w \in Workers :
        \A i \in 1..Len(calls[w]) :
            calls[w][i].call = "ctx.Done"
            => /\ \A j \in (i + 1)..Len(calls[w]) : calls[w][j].call \notin StoreCalls
               /\ (pc[w] = "done"
                   => res[w].outcome = "returned" /\ Kind(res[w].err) = Kind(ErrCanceled))

\* how often the request of worker w made the call `name`
TimesCalled(w, name) ==
    Cardinality({i \in 1..Len(calls[w]) : calls[w][i].call = name})

\* C15: a request invokes each store operation at most once, and a store
\* call that returned an error is the request's last call: the request ends
\* with that failure returned, the store not being asked again.
C15_NoRetry ==
    \A w \in Workers :
        /\ \A name \in StoreCalls : TimesCalled(w, name) <= 1
        /\ \A i \in 1..Len(calls[w]) :
             (calls[w][i].call \in StoreCalls /\ calls[w][i].err # Nil)
             => /\ i = Len(calls[w])
                /\ pc[w] = "done"
                /\ res[w].outcome = "returned"
                /\ res[w].err # Nil
                /\ (calls[w][i].err = ErrStoreOther => Is(res[w].err, ErrStoreOther))

C15_Witness ==
    \E w1, w2 \in Workers :
        /\ Done(w1, "RegisterNewUser") /\ Called(w1, "SaveUser", ErrStoreOther)
        /\ TimesCalled(w1, "SaveUser") = 1 /\ Is(res[w1].err, ErrStoreOther)
        /\ Done(w2, "Login") /\ Called(w2, "App", ErrStoreOther)
        /\ TimesCalled(w2, "App") = 1 /\ Is(res[w2].err, ErrStoreOther)

Logged(m) == \E i \in 1..Len(log) : log[i] = m

\* every `later` in the log has an `earlier` before it
LoggedBefore(earlier, later) ==
    \A j \in 1..Len(log) : log[j] = later => \E i \in 1..(j - 1) : log[i] = earlier

SignalReceived == \E s \in Signals : Logged("received signal " \o s)

\* C16: once MustRun has ended it has panicked iff Run returned an error; Run
\* returns an error iff net.Listen or Serve failed; Stop is called at most
\* once, exactly when main is past receiving a signal and so after the server
\* goroutine was started; "application stopped" is logged only after Stop has
\* returned.
C16_ServerLifecycle ==
    /\ srv.pc \in {"end", "panic"} => (srv.pc = "panic" <=> srv.runErr # Nil)
    /\ srv.pc \in {"returned", "end", "panic"}
       => (srv.runErr # Nil <=> (srv.listenErr # Nil \/ srv.serveErr # Nil))
    /\ (srv.pc \in {"none", "run", "listening", "serving"} => srv.runErr = Nil)
    /\ grpc.stopCalls <= 1
    /\ (grpc.stopCalls = 1 <=> mainPc \in {"in_stop", "after_stop", "exit"})
    /\ (grpc.stopCalls = 1 => SignalReceived /\ srv.pc # "none")
    /\ LoggedBefore("stopping gRPC server", "application stopped")
    /\ (Logged("application stopped") => mainPc = "exit" /\ grpc.stopCalls = 1)
    /\ (mainPc \in {"got", "in_stop", "after_stop"} => ~Logged("application stopped"))

C16_Witness ==
    /\ mainPc = "exit" /\ Logged("application stopped")
    /\ grpc.stopCalls = 1 /\ SignalReceived
    /\ srv.pc = "end" /\ srv.runErr = Nil

\* worker w takes a step of the operation op
StepOf(w, op) ==
    /\ pc'[w] # pc[w]
    /\ req[w].op = op \/ req'[w].op = op

\* C17: no step changes the apps, the admin flags or the fields of the Auth
\* object; a step of Login or IsAdmin changes no user record; the user records
\* change only in the SaveUser step of a RegisterNewUser whose SaveUser
\* succeeded, by the one record it saved.
C17_Frame ==
    [][ /\ apps' = apps
        /\ admins' = admins
        /\ a' = a
        /\ \A w \in Workers :
             (StepOf(w, "Login") \/ StepOf(w, "IsAdmin")) => users' = users
        /\ users' # users
           => \E w \in Workers :
                /\ req[w].op = "RegisterNewUser"
                /\ pc[w] = "reg_save" /\ pc'[w] = "done"
                /\ calls'[w][Len(calls'[w])] = [call |-> "SaveUser", err |-> Nil]
                /\ res'[w].err = Nil
                /\ users' = users \cup {[id |-> res'[w].uid, email |-> req[w].email,
                                         passHash |-> loc[w].passHash]} ]_vars

C17_Witness ==
    \E w1, w2 \in Workers :
        /\ Done(w1, "Login") /\ Called(w1, "App", Nil)
        /\ Done(w2, "IsAdmin")
        /\ \E u \in users : u.email = req[w1].email
        /\ a \in {New(ttl) : ttl \in TTLs}
        /\ apps = ProvisionedApps

\* the error of the last call the request of worker w made
LastErr(w) == calls[w][Len(calls[w])].err

\* the cause Login reports for the failure of its last call: not-found and a
\* password mismatch are reported as invalid credentials, anything else as is
LoginCause(w) ==
    IF LastErr(w) \in {ErrUserNotFound, ErrMismatchedHashAndPassword}
    THEN ErrInvalidCredentials
    ELSE LastErr(w)

\* C18: RegisterNewUser returning an error returns uid 0, Login returning an
\* error returns the empty token, and the error is the operation's name
\* wrapped around its cause, whose kind error inspection still finds.
C18_ErrorResults ==
    \A w \in Workers :
        (pc[w] = "done" /\ res[w].err # Nil)
        => /\ req[w].op = "RegisterNewUser"
              => /\ res[w].uid = 0
                 /\ res[w].err = <<opRegister>> \o LastErr(w)
                 /\ Is(res[w].err, LastErr(w))
           /\ req[w].op = "Login"
              => /\ res[w].token = NoToken
                 /\ res[w].err = <<opLogin>> \o LoginCause(w)
                 /\ Is(res[w].err, LoginCause(w))

C18_Witness ==
    \E w1, w2 \in Workers :
        /\ Done(w1, "RegisterNewUser") /\ Is(res[w1].err, ErrUserExists)
        /\ res[w1].uid = 0 /\ res[w1].err[1] = opRegister
        /\ Done(w2, "Login") /\ Is(res[w2].err, ErrInvalidCredentials)
        /\ res[w2].token = NoToken /\ res[w2].err[1] = opLogin

====
